---- MODULE Spec2Model ----
(***************************************************************************)
(* A model of src/main.cpp (OpenGLPractice7): the setup sequence of main,  *)
(* createTriangle, addShader / compileShaders, and the render loop with    *)
(* its per-frame animation state.                                          *)
(*                                                                         *)
(* The float globals are modelled as IEEE-754 binary32 values:             *)
(*   - triOffset is a signed integer counting units of 2^-30 (the ulp of   *)
(*     0.015f); every sum is rounded to the 24-bit significand grid;       *)
(*   - currentAngle and the colour phase i are records [m, e] standing for *)
(*     m * 2^e with 2^23 <= m < 2^24 (or m = 0 for zero).                  *)
(***************************************************************************)
EXTENDS Integers, Sequences, FiniteSets

VARIABLES
    pc,                 \* position of main
    setup,              \* result of each fatal setup step: "none" | "ok" | "fail"
    exit,               \* << >> while running, <<code>> once main returned
    out,                \* diagnostics written to std::cout (angle prints apart)
    windowState,        \* "none" | "open" | "destroyed"
    glfwTerminated,     \* glfwTerminate() was called
    shouldClose,        \* the window's close flag
    closeRequestedAt,   \* where main was when the close flag was raised
    windowSize,         \* the window's current size
    bufferSize,         \* main's locals bufferWidth, bufferHeight
    viewport,           \* last size given to glViewport
    projection,         \* the size the projection matrix was computed from
    vao, vbo, ibo, shader,                    \* the global object names
    attached,           \* shader stages attached to the program
    vaoBinding, arrayBufferBinding, elementBufferBinding, currentProgram,
    uniformModel, uniformProjection,          \* unsigned int globals
    glStatus,           \* what the device answered in shader setup
    shaderCalls,        \* device calls issued by shader setup, in order
    direction, triOffset, currentAngle, phase,
    rgbPhase,           \* the phase r, g, b were computed from
    clearColor,         \* the phase of the colour last given to glClearColor
    printed,            \* the angle last written to std::cout
    modelVersion,       \* number of rotate+translate updates applied to model
    modelOffset,        \* the triOffset the last translate used
    uploadedTo,         \* locations of the last two glUniformMatrix4fv calls
    drawCalls, lastDraw,
    frame,              \* iterations of the render loop started
    trace               \* steps of the current iteration, in order

setupVars  == << setup, exit, out, windowState, glfwTerminated >>
envVars    == << shouldClose, closeRequestedAt, windowSize >>
viewVars   == << bufferSize, viewport, projection >>
nameVars   == << vao, vbo, ibo >>
bindVars   == << vaoBinding, arrayBufferBinding, elementBufferBinding,
                 currentProgram >>
shaderVars == << shader, attached, uniformModel, uniformProjection, glStatus,
                 shaderCalls >>
animVars   == << direction, triOffset, currentAngle, phase >>
drawVars   == << rgbPhase, clearColor, printed, modelVersion, modelOffset,
                 uploadedTo, drawCalls, lastDraw >>

vars == << pc, setupVars, envVars, viewVars, nameVars, bindVars, shaderVars,
           animVars, drawVars, frame, trace >>

----------------------------------------------------------------------------
(* Bounds of the model *)

\* iterations of the render loop explored with every setup outcome
MaxFrames == 3

\* iterations explored by the animation specification: past the first
\* two wrap-arounds of currentAngle (frames 7202 and 14402) and 53 periods
\* of triOffset (285 distinct offset states, all met by frame 285)
MaxAnimFrames == 14404

----------------------------------------------------------------------------
(* binary32 arithmetic *)

RECURSIVE Pow2(_)
Pow2(n) == IF n = 0 THEN 1 ELSE 2 * Pow2(n - 1)

Abs(x) == IF x < 0 THEN -x ELSE x

\* 2^23 and 2^24: the range of a normalised 24-bit significand
SigMin == 8388608
SigMax == 16777216

\* round q + r/g to an integer, to nearest, ties to even
RoundNearestEven(q, r, g) ==
    IF 2 * r > g \/ (2 * r = g /\ q % 2 = 1) THEN q + 1 ELSE q

\* the spacing of binary32 values around a (a >= 0, in units of the grid)
RECURSIVE UlpOf(_)
UlpOf(a) == IF a < SigMax THEN 1 ELSE 2 * UlpOf(a \div 2)

\* x (an integer number of units) rounded to the nearest binary32 value
F32Round(x) ==
    LET a == Abs(x)
        g == UlpOf(a)
        r == RoundNearestEven(a \div g, a % g, g) * g
    IN  IF x < 0 THEN -r ELSE r

FZero == [m |-> 0, e |-> 0]

RECURSIVE FNormalize(_)
FNormalize(x) ==
    IF x.m = 0 THEN FZero
    ELSE IF x.m < SigMin THEN FNormalize([m |-> 2 * x.m, e |-> x.e - 1])
    ELSE x

\* x >= y for non-negative normalised values
FGeq(x, y) ==
    IF y.m = 0 THEN TRUE
    ELSE IF x.m = 0 THEN FALSE
    ELSE x.e > y.e \/ (x.e = y.e /\ x.m >= y.m)

\* x + y for non-negative normalised values, x.e >= y.e, both non-zero
FAddOrdered(x, y) ==
    LET d == x.e - y.e
    IN  IF d > 25 THEN x
        ELSE
          LET g == Pow2(d)
              s == x.m + (y.m \div g)
              r == y.m % g
          IN  IF s < SigMax
              THEN LET t == RoundNearestEven(s, r, g)
                   IN  IF t = SigMax THEN [m |-> SigMin, e |-> x.e + 1]
                       ELSE [m |-> t, e |-> x.e]
              ELSE LET t == RoundNearestEven(s \div 2, (s % 2) * g + r, 2 * g)
                   IN  IF t = SigMax THEN [m |-> SigMin, e |-> x.e + 2]
                       ELSE [m |-> t, e |-> x.e + 1]

\* binary32 addition of non-negative values
FAdd(x, y) ==
    IF x.m = 0 THEN y
    ELSE IF y.m = 0 THEN x
    ELSE IF x.e >= y.e THEN FAddOrdered(x, y) ELSE FAddOrdered(y, x)

RECURSIVE Log2(_)
Log2(g) == IF g <= 1 THEN 0 ELSE 1 + Log2(g \div 2)

\* the non-negative integer n times 2^e, rounded to binary32
FFromScaled(n, e) ==
    LET g == UlpOf(n)
        t == RoundNearestEven(n \div g, n % g, g)
    IN  IF g = 1 THEN FNormalize([m |-> n, e |-> e])
        ELSE IF t = SigMax THEN [m |-> SigMin, e |-> e + Log2(g) + 1]
        ELSE [m |-> t, e |-> e + Log2(g)]

\* binary32 subtraction x - y for x >= y > 0 and x.e - y.e <= 6 (the exact
\* difference then fits 31 bits)
FSub(x, y) == FFromScaled(x.m * Pow2(x.e - y.e) - y.m, y.e)

----------------------------------------------------------------------------
(* Program constants *)

WIDTH == 640
HEIGHT == 480

\* 1.0f and 0.015f in units of 2^-30
TriMaxOffset == 1073741824
TriTranslationIncrement == 16106127

\* 360 (converted to float for the comparison), 0.05f and 0.00005f
FullTurn == [m |-> 11796480, e |-> -15]
AngleIncrement == [m |-> 13421773, e |-> -28]
PhaseIncrement == [m |-> 13743895, e |-> -38]

\* the count argument of glDrawElements
IndexCount == 12

\* object names the device hands out (non-zero; buffers and vertex arrays
\* are separate name spaces)
VaoName == 1
IboName == 1
VboName == 2
ProgramName == 3

\* what glGetUniformLocation may answer: -1 (no such active uniform) or a slot
UniformLocations == {-1, 0, 1}

\* sizes the window system may report
Sizes == { << WIDTH, HEIGHT >>, << 800, 600 >> }

----------------------------------------------------------------------------
(* unsigned int <-> int, 32 bits, as two 16-bit halves *)

Half == 65536

\* the value an unsigned int holds after being assigned the int n
ToUnsigned(n) ==
    IF n >= 0 THEN [hi |-> n \div Half, lo |-> n % Half]
    ELSE LET k == (n + 2147483647) + 1
         IN  [hi |-> (k \div Half) + (Half \div 2), lo |-> k % Half]

\* the cast (int) u
ToInt(u) ==
    IF u.hi >= Half \div 2 THEN (u.hi - Half) * Half + u.lo
    ELSE u.hi * Half + u.lo

\* mutant of UniformInitial: the locations start as "not found" (-1)
UniformAllOnes == ToUnsigned(-1)

\* a global of static storage duration without initialiser is zero
UniformInitial == ToUnsigned(0)

----------------------------------------------------------------------------
(* Device binding state *)

Bindings ==
    [vao |-> vaoBinding, array |-> arrayBufferBinding,
     element |-> elementBufferBinding, program |-> currentProgram]

SetBindings(b) ==
    /\ vaoBinding' = b.vao
    /\ arrayBufferBinding' = b.array
    /\ elementBufferBinding' = b.element
    /\ currentProgram' = b.program

BindVertexArray(b, name) == [b EXCEPT !.vao = name]
BindArrayBuffer(b, name) == [b EXCEPT !.array = name]
BindElementBuffer(b, name) == [b EXCEPT !.element = name]
UseProgramOn(b, name) == [b EXCEPT !.program = name]

\* createTriangle: the bindings it leaves, after its calls in order
CreateTriangleBindings(b) ==
    LET b1 == BindVertexArray(b, VaoName)
        b2 == BindElementBuffer(b1, IboName)
        b3 == BindArrayBuffer(b2, VboName)
        b4 == BindArrayBuffer(b3, 0)
        b5 == BindElementBuffer(b4, 0)
    IN  BindVertexArray(b5, 0)

\* the loop's binds before the draw call
BindGeometry(b, vaoName, iboName) ==
    BindElementBuffer(BindVertexArray(b, vaoName), iboName)

\* mutant of UnbindAll: the vertex array is left bound
UnbindAllKeepVertexArray(b) ==
    UseProgramOn(BindElementBuffer(b, 0), 0)

\* the loop's unbinds after the draw call
UnbindAll(b) ==
    UseProgramOn(BindVertexArray(BindElementBuffer(b, 0), 0), 0)

----------------------------------------------------------------------------
(* Shader setup *)

NoStatus ==
    [create |-> "none", vertex |-> "none", fragment |-> "none",
     link |-> "none", validate |-> "none"]

\* the part of the state shader setup works on
ShaderState ==
    [shader |-> shader, attached |-> attached, uniformModel |-> uniformModel,
     uniformProjection |-> uniformProjection, status |-> glStatus,
     calls |-> shaderCalls, out |-> out]

\* mutant of AddShader: a failed compilation is not reported
AddShaderSilent(st, compiled, kind) ==
    LET s1 == [st EXCEPT !.calls = Append(@, << "compile", kind >>),
                         !.status[kind] = IF compiled THEN "ok" ELSE "fail"]
    IN  IF ~compiled
        THEN s1
        ELSE [s1 EXCEPT !.attached = @ \cup {kind},
                        !.calls = Append(@, << "attach", kind >>)]

\* addShader(program, source, type): compile one stage; attach it on success,
\* print and return on failure
AddShader(st, compiled, kind) ==
    LET s1 == [st EXCEPT !.calls = Append(@, << "compile", kind >>),
                         !.status[kind] = IF compiled THEN "ok" ELSE "fail"]
    IN  IF ~compiled
        THEN [s1 EXCEPT !.out = Append(@, << "Error compiling shader", kind >>)]
        ELSE [s1 EXCEPT !.attached = @ \cup {kind},
                        !.calls = Append(@, << "attach", kind >>)]

\* compileShaders(), given the device's answers
CompileShadersResult(st, created, vsOk, fsOk, linkOk, validOk, locM, locP) ==
    LET s0 == [st EXCEPT !.shader = IF created THEN ProgramName ELSE 0,
                         !.calls = Append(@, << "createProgram" >>),
                         !.status.create = IF created THEN "ok" ELSE "fail"]
        s1 == AddShader(s0, vsOk, "vertex")
        s2 == AddShader(s1, fsOk, "fragment")
        s3 == [s2 EXCEPT !.calls = Append(@, << "link" >>),
                         !.status.link = IF linkOk THEN "ok" ELSE "fail"]
        s4 == [s3 EXCEPT !.calls = Append(@, << "validate" >>),
                         !.status.validate = IF validOk THEN "ok" ELSE "fail"]
    IN  IF s0.shader = 0
        THEN [s0 EXCEPT !.out = Append(@, << "Error creating shader program" >>)]
        ELSE IF ~linkOk
        THEN [s3 EXCEPT !.out = Append(@, << "Error linking program" >>)]
        ELSE IF ~validOk
        THEN [s4 EXCEPT !.out = Append(@, << "Error validating program" >>)]
        ELSE [s4 EXCEPT !.calls = @ \o << << "getUniformLocation", "model" >>,
                                         << "getUniformLocation", "projection" >> >>,
                        !.uniformModel = ToUnsigned(locM),
                        !.uniformProjection = ToUnsigned(locP)]

----------------------------------------------------------------------------
(* Initial state: the globals as initialised, main about to start *)

Init ==
    /\ pc = "glfwInit"
    /\ setup = [glfw |-> "none", window |-> "none", glew |-> "none"]
    /\ exit = << >>
    /\ out = << >>
    /\ windowState = "none"
    /\ glfwTerminated = FALSE
    /\ shouldClose = FALSE
    /\ closeRequestedAt = "none"
    /\ windowSize = << 0, 0 >>
    /\ bufferSize = << 0, 0 >>
    /\ viewport = << 0, 0 >>
    /\ projection = << 0, 0 >>
    /\ vao = 0 /\ vbo = 0 /\ ibo = 0 /\ shader = 0
    /\ attached = {}
    /\ vaoBinding = 0 /\ arrayBufferBinding = 0
    /\ elementBufferBinding = 0 /\ currentProgram = 0
    /\ uniformModel = UniformInitial
    /\ uniformProjection = UniformInitial
    /\ glStatus = NoStatus
    /\ shaderCalls = << >>
    /\ direction = TRUE
    /\ triOffset = 0
    /\ currentAngle = FZero
    /\ phase = FZero
    /\ rgbPhase = FZero
    /\ clearColor = FZero
    /\ printed = FZero
    /\ modelVersion = 0
    /\ modelOffset = 0
    /\ uploadedTo = << >>
    /\ drawCalls = 0
    /\ lastDraw = << >>
    /\ frame = 0
    /\ trace = << >>

----------------------------------------------------------------------------
(* main: setup *)

loopVars == << animVars, drawVars, frame, trace >>

\* return 1 after a failed setup step
SetupFailure(message, window) ==
    /\ out' = Append(out, << message >>)
    /\ windowState' = window
    /\ glfwTerminated' = TRUE
    /\ exit' = << 1 >>
    /\ pc' = "done"

GlfwInit ==
    /\ pc = "glfwInit"
    /\ \E ok \in BOOLEAN :
          /\ setup' = [setup EXCEPT !.glfw = IF ok THEN "ok" ELSE "fail"]
          /\ IF ~ok
             THEN SetupFailure("GLFW failed to initialize", windowState)
             ELSE /\ pc' = "createWindow"
                  /\ UNCHANGED << exit, out, windowState, glfwTerminated >>
    /\ UNCHANGED << envVars, viewVars, nameVars, bindVars, shaderVars, loopVars >>

\* glfwCreateWindow, glfwGetFramebufferSize, glfwMakeContextCurrent
CreateWindow ==
    /\ pc = "createWindow"
    /\ \E ok \in BOOLEAN, size \in Sizes :
          /\ setup' = [setup EXCEPT !.window = IF ok THEN "ok" ELSE "fail"]
          /\ IF ~ok
             THEN /\ SetupFailure("Could not create main GLFW window", windowState)
                  /\ UNCHANGED << windowSize, bufferSize >>
             ELSE /\ pc' = "glewInit"
                  /\ windowState' = "open"
                  /\ windowSize' = << WIDTH, HEIGHT >>
                  /\ bufferSize' = size
                  /\ UNCHANGED << exit, out, glfwTerminated >>
    /\ UNCHANGED << shouldClose, closeRequestedAt, viewport, projection,
                    nameVars, bindVars, shaderVars, loopVars >>

\* the test main applies to glewInit()'s answer before it gives up
GlewInitGivesUp(ok) == ok

\* glewInit and, when main goes on, glEnable and glViewport
GlewInit ==
    /\ pc = "glewInit"
    /\ \E ok \in BOOLEAN :
          /\ setup' = [setup EXCEPT !.glew = IF ok THEN "ok" ELSE "fail"]
          /\ IF GlewInitGivesUp(ok)
             THEN /\ SetupFailure("Could not initialize GLEW", "destroyed")
                  /\ UNCHANGED viewport
             ELSE /\ pc' = "createTriangle"
                  /\ viewport' = bufferSize
                  /\ UNCHANGED << exit, out, windowState, glfwTerminated >>
    /\ UNCHANGED << envVars, bufferSize, projection, nameVars, bindVars,
                    shaderVars, loopVars >>

CreateTriangle ==
    /\ pc = "createTriangle"
    /\ vao' = VaoName
    /\ ibo' = IboName
    /\ vbo' = VboName
    /\ SetBindings(CreateTriangleBindings(Bindings))
    /\ pc' = "compileShaders"
    /\ UNCHANGED << setupVars, envVars, viewVars, shaderVars, loopVars >>

\* compileShaders, then main's model and projection matrices
CompileShaders ==
    /\ pc = "compileShaders"
    /\ \E created, vsOk, fsOk, linkOk, validOk \in BOOLEAN,
          locM, locP \in UniformLocations :
          LET r == CompileShadersResult(ShaderState, created, vsOk, fsOk,
                                        linkOk, validOk, locM, locP)
          IN  /\ shader' = r.shader
              /\ attached' = r.attached
              /\ uniformModel' = r.uniformModel
              /\ uniformProjection' = r.uniformProjection
              /\ glStatus' = r.status
              /\ shaderCalls' = r.calls
              /\ out' = r.out
    /\ projection' = bufferSize
    /\ pc' = "loopTest"
    /\ UNCHANGED << setup, exit, windowState, glfwTerminated, envVars,
                    bufferSize, viewport, nameVars, bindVars, loopVars >>

----------------------------------------------------------------------------
(* main: the render loop *)

\* the statements of the loop body, in program order
LoopBody ==
    << "viewport", "poll", "colour", "offset", "wrap", "clear", "useProgram",
       "print", "model", "uniforms", "bind", "draw", "unbind", "sleep",
       "advance", "swap" >>

BodySteps == { LoopBody[k] : k \in 1..Len(LoopBody) }

IndexOf(seq, x) == CHOOSE k \in 1..Len(seq) : seq[k] = x

\* mutant of NextStep: the buffers are swapped before the sleep and the
\* increments
NextStepSwapFirst(p) ==
    LET order == << "viewport", "poll", "colour", "offset", "wrap", "clear",
                    "useProgram", "print", "model", "uniforms", "bind", "draw",
                    "unbind", "swap", "sleep", "advance" >>
        k == IndexOf(order, p)
    IN  IF k = Len(order) THEN "loopTest" ELSE order[k + 1]

\* where control goes after statement p of the loop body
NextStep(p) ==
    LET k == IndexOf(LoopBody, p)
    IN  IF k = Len(LoopBody) THEN "loopTest" ELSE LoopBody[k + 1]

\* statement p runs: control moves on, the step is recorded
Step(p) ==
    /\ pc = p
    /\ pc' = NextStep(p)
    /\ trace' = Append(trace, p)
    /\ UNCHANGED << frame, setupVars, shaderVars, nameVars, projection >>

\* while (!glfwWindowShouldClose(mainWindow)): the body is entered
LoopEnter(cap) ==
    /\ pc = "loopTest"
    /\ ~shouldClose
    /\ frame < cap
    /\ frame' = frame + 1
    /\ trace' = << >>
    /\ pc' = LoopBody[1]
    /\ UNCHANGED << setupVars, envVars, viewVars, nameVars, bindVars,
                    shaderVars, animVars, drawVars >>

\* while (!glfwWindowShouldClose(mainWindow)): the loop is left
LoopExit ==
    /\ pc = "loopTest"
    /\ shouldClose
    /\ pc' = "destroy"
    /\ UNCHANGED << setupVars, envVars, viewVars, nameVars, bindVars,
                    shaderVars, animVars, drawVars, frame, trace >>

\* glfwDestroyWindow(mainWindow); return 0;
DestroyWindow ==
    /\ pc = "destroy"
    /\ windowState' = "destroyed"
    /\ exit' = << 0 >>
    /\ pc' = "done"
    /\ UNCHANGED << setup, out, glfwTerminated, envVars, viewVars, nameVars,
                    bindVars, shaderVars, animVars, drawVars, frame, trace >>

\* glfwGetWindowSize; glViewport
Viewport ==
    /\ Step("viewport")
    /\ bufferSize' = windowSize
    /\ viewport' = windowSize
    /\ UNCHANGED << envVars, bindVars, animVars, drawVars >>

\* mutant of Poll: the loop is left right after polling when the close flag
\* is up
PollLeavesOnClose ==
    /\ pc = "poll"
    /\ IF shouldClose
       THEN /\ pc' = "destroy"
            /\ UNCHANGED << trace, frame, setupVars, shaderVars, nameVars,
                            projection >>
       ELSE Step("poll")
    /\ UNCHANGED << envVars, bufferSize, viewport, bindVars, animVars, drawVars >>

\* glfwPollEvents
Poll ==
    /\ Step("poll")
    /\ UNCHANGED << envVars, bufferSize, viewport, bindVars, animVars, drawVars >>

\* r, g, b from the phase i
Colour ==
    /\ Step("colour")
    /\ rgbPhase' = phase
    /\ UNCHANGED << envVars, bufferSize, viewport, bindVars, animVars,
                    clearColor, printed, modelVersion, modelOffset,
                    uploadedTo, drawCalls, lastDraw >>

\* mutant of OffsetStep: the flip test forgets the absolute value
OffsetStepNoAbs(off, dir) ==
    LET o == F32Round(IF dir THEN off + TriTranslationIncrement
                             ELSE off - TriTranslationIncrement)
    IN  [offset |-> o,
         direction |-> IF o >= TriMaxOffset THEN ~dir ELSE dir]

\* mutant of OffsetStep: the flip test runs before the offset moves
OffsetStepTestFirst(off, dir) ==
    LET d == IF Abs(off) >= TriMaxOffset THEN ~dir ELSE dir
    IN  [offset |-> F32Round(IF d THEN off + TriTranslationIncrement
                                  ELSE off - TriTranslationIncrement),
         direction |-> d]

\* mutant of OffsetStep: the offset moves two increments a frame
OffsetStepTwice(off, dir) ==
    LET o1 == F32Round(IF dir THEN off + TriTranslationIncrement
                              ELSE off - TriTranslationIncrement)
        o  == F32Round(IF dir THEN o1 + TriTranslationIncrement
                              ELSE o1 - TriTranslationIncrement)
    IN  [offset |-> o,
         direction |-> IF Abs(o) >= TriMaxOffset THEN ~dir ELSE dir]

\* the offset moves one increment; the direction flips once |offset| >= max
OffsetStep(off, dir) ==
    LET o == F32Round(IF dir THEN off + TriTranslationIncrement
                             ELSE off - TriTranslationIncrement)
    IN  [offset |-> o,
         direction |-> IF Abs(o) >= TriMaxOffset THEN ~dir ELSE dir]

Offset ==
    /\ Step("offset")
    /\ LET r == OffsetStep(triOffset, direction)
       IN  /\ triOffset' = r.offset
           /\ direction' = r.direction
    /\ UNCHANGED << envVars, bufferSize, viewport, bindVars, currentAngle,
                    phase, drawVars >>

\* mutant of WrapAngle: the angle restarts from zero
WrapAngleToZero(a) == IF FGeq(a, FullTurn) THEN FZero ELSE a

\* if (currentAngle >= 360) currentAngle -= 360;
WrapAngle(a) == IF FGeq(a, FullTurn) THEN FSub(a, FullTurn) ELSE a

Wrap ==
    /\ Step("wrap")
    /\ currentAngle' = WrapAngle(currentAngle)
    /\ UNCHANGED << envVars, bufferSize, viewport, bindVars, direction,
                    triOffset, phase, drawVars >>

\* glClearColor(r, g, b, 1); glClear
Clear ==
    /\ Step("clear")
    /\ clearColor' = rgbPhase
    /\ UNCHANGED << envVars, bufferSize, viewport, bindVars, animVars,
                    rgbPhase, printed, modelVersion, modelOffset, uploadedTo,
                    drawCalls, lastDraw >>

\* glUseProgram(shader)
UseProgram ==
    /\ Step("useProgram")
    /\ SetBindings(UseProgramOn(Bindings, shader))
    /\ UNCHANGED << envVars, bufferSize, viewport, animVars, drawVars >>

\* std::cout << currentAngle
PrintAngle ==
    /\ Step("print")
    /\ printed' = currentAngle
    /\ UNCHANGED << envVars, bufferSize, viewport, bindVars, animVars,
                    rgbPhase, clearColor, modelVersion, modelOffset,
                    uploadedTo, drawCalls, lastDraw >>

\* model = rotate(model, ...); model = translate(model, triOffset / 5, ...)
Model ==
    /\ Step("model")
    /\ modelVersion' = modelVersion + 1
    /\ modelOffset' = triOffset
    /\ UNCHANGED << envVars, bufferSize, viewport, bindVars, animVars,
                    rgbPhase, clearColor, printed, uploadedTo, drawCalls,
                    lastDraw >>

\* the locations the two matrices are uploaded to
UploadLocations(um, up) == << ToInt(um), ToInt(up) >>

\* glUniformMatrix4fv for model and projection
Uniforms ==
    /\ Step("uniforms")
    /\ uploadedTo' = UploadLocations(uniformModel, uniformProjection)
    /\ UNCHANGED << envVars, bufferSize, viewport, bindVars, animVars,
                    rgbPhase, clearColor, printed, modelVersion, modelOffset,
                    drawCalls, lastDraw >>

\* glBindVertexArray(vao); glBindBuffer(GL_ELEMENT_ARRAY_BUFFER, ibo)
Bind ==
    /\ Step("bind")
    /\ SetBindings(BindGeometry(Bindings, vao, ibo))
    /\ UNCHANGED << envVars, bufferSize, viewport, animVars, drawVars >>

\* glDrawElements(GL_TRIANGLES, 12, GL_UNSIGNED_INT, nullptr)
Draw ==
    /\ Step("draw")
    /\ drawCalls' = drawCalls + 1
    /\ lastDraw' = << [count |-> IndexCount, vao |-> vaoBinding,
                       indices |-> elementBufferBinding,
                       program |-> currentProgram] >>
    /\ UNCHANGED << envVars, bufferSize, viewport, bindVars, animVars,
                    rgbPhase, clearColor, printed, modelVersion, modelOffset,
                    uploadedTo >>

\* the two unbinds and glUseProgram(0)
Unbind ==
    /\ Step("unbind")
    /\ SetBindings(UnbindAll(Bindings))
    /\ UNCHANGED << envVars, bufferSize, viewport, animVars, drawVars >>

\* std::this_thread::sleep_for
Sleep ==
    /\ Step("sleep")
    /\ UNCHANGED << envVars, bufferSize, viewport, bindVars, animVars, drawVars >>

\* i += 0.00005f; currentAngle += 0.05f;
AdvancePhase(i) == FAdd(i, PhaseIncrement)
AdvanceAngle(a) == FAdd(a, AngleIncrement)

Advance ==
    /\ Step("advance")
    /\ phase' = AdvancePhase(phase)
    /\ currentAngle' = AdvanceAngle(currentAngle)
    /\ UNCHANGED << envVars, bufferSize, viewport, bindVars, direction,
                    triOffset, drawVars >>

\* glfwSwapBuffers
Swap ==
    /\ Step("swap")
    /\ UNCHANGED << envVars, bufferSize, viewport, bindVars, animVars, drawVars >>

----------------------------------------------------------------------------
(* The window system *)

\* the user asks to close the window: the close flag is raised
RequestClose ==
    /\ windowState = "open"
    /\ ~shouldClose
    /\ shouldClose' = TRUE
    /\ closeRequestedAt' = pc
    /\ UNCHANGED << pc, setupVars, windowSize, viewVars, nameVars, bindVars,
                    shaderVars, animVars, drawVars, frame, trace >>

\* the user resizes the window
Resize ==
    /\ windowState = "open"
    /\ \E size \in Sizes \ {windowSize} : windowSize' = size
    /\ UNCHANGED << pc, setupVars, shouldClose, closeRequestedAt, viewVars,
                    nameVars, bindVars, shaderVars, animVars, drawVars, frame,
                    trace >>

----------------------------------------------------------------------------
(* Specifications *)

Frame ==
    \/ Viewport \/ Poll \/ Colour \/ Offset \/ Wrap \/ Clear \/ UseProgram
    \/ PrintAngle \/ Model \/ Uniforms \/ Bind \/ Draw \/ Unbind \/ Sleep
    \/ Advance \/ Swap

Main ==
    \/ GlfwInit \/ CreateWindow \/ GlewInit \/ CreateTriangle
    \/ CompileShaders \/ LoopEnter(MaxFrames) \/ LoopExit \/ DestroyWindow
    \/ Frame

Next == Main \/ RequestClose \/ Resize

\* the whole program, the window system acting at any time
Spec == Init /\ [][Next]_vars

\* main is a single thread that runs on: every statement is eventually
\* executed (the sleep is finite, event polling does not block)
LiveSpec == Spec /\ WF_vars(Main)

\* the state on entry to the render loop after a setup in which every
\* device call answered success, the uniforms at slots 0 and 1
AnimStart ==
    /\ pc = "loopTest"
    /\ setup = [glfw |-> "ok", window |-> "ok", glew |-> "fail"]
    /\ exit = << >>
    /\ out = << >>
    /\ windowState = "open"
    /\ glfwTerminated = FALSE
    /\ shouldClose = FALSE
    /\ closeRequestedAt = "none"
    /\ windowSize = << WIDTH, HEIGHT >>
    /\ bufferSize = << WIDTH, HEIGHT >>
    /\ viewport = << WIDTH, HEIGHT >>
    /\ projection = << WIDTH, HEIGHT >>
    /\ vao = VaoName /\ vbo = VboName /\ ibo = IboName
    /\ shader = ProgramName
    /\ attached = {"vertex", "fragment"}
    /\ vaoBinding = 0 /\ arrayBufferBinding = 0
    /\ elementBufferBinding = 0 /\ currentProgram = 0
    /\ uniformModel = ToUnsigned(0)
    /\ uniformProjection = ToUnsigned(1)
    /\ glStatus = [create |-> "ok", vertex |-> "ok", fragment |-> "ok",
                   link |-> "ok", validate |-> "ok"]
    /\ shaderCalls = << << "createProgram" >>, << "compile", "vertex" >>,
                        << "attach", "vertex" >>, << "compile", "fragment" >>,
                        << "attach", "fragment" >>, << "link" >>,
                        << "validate" >>,
                        << "getUniformLocation", "model" >>,
                        << "getUniformLocation", "projection" >> >>
    /\ direction = TRUE
    /\ triOffset = 0
    /\ currentAngle = FZero
    /\ phase = FZero
    /\ rgbPhase = FZero
    /\ clearColor = FZero
    /\ printed = FZero
    /\ modelVersion = 0
    /\ modelOffset = 0
    /\ uploadedTo = << >>
    /\ drawCalls = 0
    /\ lastDraw = << >>
    /\ frame = 0
    /\ trace = << >>

NextAnim == LoopEnter(MaxAnimFrames) \/ Frame

\* the render loop alone, run frame after frame with the window left alone
SpecAnim == AnimStart /\ [][NextAnim]_vars

----------------------------------------------------------------------------
(* Exit codes *)

SetupFailed ==
    setup.glfw = "fail" \/ setup.window = "fail" \/ setup.glew = "fail"

SetupSucceeded ==
    setup.glfw = "ok" /\ setup.window = "ok" /\ setup.glew = "ok"

\* C1: once main has returned, the exit code is 1 exactly when one of the
\* three setup steps failed, and 0 when all three succeeded (the window then
\* having been closed by the user); a successful glewInit never ends in 1.
C1_ExitCodeFollowsSetup ==
    pc = "done" =>
        /\ (exit = << 1 >>) <=> SetupFailed
        /\ SetupSucceeded => (exit = << 0 >> /\ shouldClose)

----------------------------------------------------------------------------
(* The oscillating offset *)

\* C2: after every frame (indeed in every state of the loop) triOffset lies
\* within [-(triMaxOffset + triTranslationIncrement),
\* triMaxOffset + triTranslationIncrement].
C2_OffsetWithinOneStepOfMax ==
    Abs(triOffset) <= TriMaxOffset + TriTranslationIncrement

\* the offset has overshot the maximum on the negative side, so both turning
\* points have been passed
C2_Witness ==
    pc = "loopTest" /\ triOffset < -TriMaxOffset

\* ceil(offset_max / offset_step)
FlipFrame ==
    (TriMaxOffset + TriTranslationIncrement - 1) \div TriTranslationIncrement

\* the offset step in thousandths
StepThousandths == 15

\* floor(k * 2^30 / 2000), computed within 32 bits (2^30 / 2000 = 536870.912)
HalfThousandths(k) == k * 536870 + (k * 114) \div 125

\* off (in units of 2^-30) is t thousandths when rounded to a thousandth
InThousandths(off, t) ==
    HalfThousandths(2 * t - 1) < off /\ off <= HalfThousandths(2 * t + 1)

\* the offset step of the current frame has been executed
OffsetStepped ==
    frame >= 1 /\ pc \notin {"viewport", "poll", "colour", "offset"}

\* C3: from the initial state the direction stays "increasing" through
\* frames 1..66 and flips to "decreasing" in the offset step of frame
\* 67 = ceil(offset_max / offset_step), where the offset is 67 steps, 1.005.
C3_FirstFlipAtFrame67 ==
    /\ FlipFrame = 67
    /\ frame < FlipFrame => direction
    /\ (frame = FlipFrame /\ ~OffsetStepped) => direction
    /\ (frame = FlipFrame /\ OffsetStepped) =>
          /\ ~direction
          /\ InThousandths(triOffset, FlipFrame * StepThousandths)

C3_Witness ==
    frame = FlipFrame /\ pc = "wrap" /\ ~direction /\ triOffset > TriMaxOffset

\* C4, as claimed: the offset stays within [-offset_max, offset_max].
C4_OffsetWithinMax ==
    Abs(triOffset) <= TriMaxOffset

\* C4, amended: the offset stays strictly within one step of the maximum,
\* and it is at or beyond the maximum only with the direction already
\* turned back toward zero.
C4_OvershootTurnsBack ==
    /\ Abs(triOffset) < TriMaxOffset + TriTranslationIncrement
    /\ Abs(triOffset) >= TriMaxOffset => (direction <=> triOffset < 0)

C4_Witness ==
    /\ triOffset > TriMaxOffset /\ ~direction
    /\ frame > FlipFrame /\ pc = "draw"

----------------------------------------------------------------------------
(* The angle *)

\* x < y for non-negative normalised values
FLess(x, y) == ~FGeq(x, y)

FrameEnded == frame >= 1 /\ pc \in {"swap", "loopTest"}

\* C5, as claimed: at the end of every frame, and whenever it is printed,
\* currentAngle is in [0, 360).
C5_AngleBelowFullTurnAtFrameEnd ==
    /\ FrameEnded => FLess(currentAngle, FullTurn)
    /\ FLess(printed, FullTurn)

\* from the wrap test to the increment of the same frame
AfterWrapTest ==
    pc \in {"clear", "useProgram", "print", "model", "uniforms", "bind",
            "draw", "unbind", "sleep", "advance"}

C5_State ==
    /\ FLess(printed, FullTurn)
    /\ AfterWrapTest => FLess(currentAngle, FullTurn)
    /\ FGeq(currentAngle, FullTurn) =>
          FLess(FSub(currentAngle, FullTurn), AngleIncrement)

C5_Step ==
    /\ currentAngle' # currentAngle => pc \in {"wrap", "advance"}
    /\ (pc = "wrap" /\ pc' # pc) =>
          IF FGeq(currentAngle, FullTurn)
          THEN FAdd(currentAngle', FullTurn) = currentAngle
          ELSE currentAngle' = currentAngle
    /\ (pc = "advance" /\ pc' # pc) =>
          /\ FGeq(currentAngle', currentAngle)
          /\ currentAngle' # currentAngle

\* C5, amended: the angle grows at the end of every frame and, once it has
\* reached 360, is reduced by exactly 360 by the wrap test of the next
\* frame, before it is printed: it is in [0, 360) whenever it is printed and
\* from the wrap test to the increment, below 360 + 0.05 at the end of a
\* frame, and changes only in the wrap test (by nothing or by exactly 360)
\* and in the increment.
C5_AngleWrapsOnNextFrame ==
    [] C5_State /\ [][C5_Step]_vars

\* the angle has just been wrapped: it is printed below one increment
C5_Witness ==
    /\ pc = "model" /\ frame > 1
    /\ printed = currentAngle
    /\ FLess(currentAngle, AngleIncrement)

----------------------------------------------------------------------------
(* The order of a frame *)

\* the stage of the per-iteration protocol a statement belongs to; "" for
\* the statements the protocol does not name
StageOf(p) ==
    CASE p = "viewport" -> "viewport"
      [] p = "poll" -> "poll"
      [] p \in {"offset", "wrap", "advance"} -> "advance state"
      [] p = "clear" -> "clear"
      [] p = "useProgram" -> "bind program"
      [] p = "model" -> "update model"
      [] p = "uniforms" -> "upload uniforms"
      [] p \in {"bind", "draw"} -> "bind and draw"
      [] p = "unbind" -> "unbind"
      [] p = "sleep" -> "sleep"
      [] p = "swap" -> "swap"
      [] OTHER -> ""

\* the stages a sequence of statements goes through, one entry per stage
\* entered
RECURSIVE Stages(_)
Stages(t) ==
    IF t = << >> THEN << >>
    ELSE LET rest == Stages(SubSeq(t, 1, Len(t) - 1))
             st   == StageOf(t[Len(t)])
         IN  IF st = "" \/ (rest # << >> /\ rest[Len(rest)] = st)
             THEN rest
             ELSE Append(rest, st)

IterationComplete == pc = "loopTest" /\ frame >= 1

\* C6, as claimed: every iteration goes through viewport, poll, advance of
\* the whole animation state, clear, bind program, update model, upload,
\* bind and draw (one draw of 12 indices), unbind, sleep, swap, in this
\* order, every advance of the animation state before the clear.
C6_ClaimedOrder ==
    IterationComplete =>
        /\ Stages(trace) =
             << "viewport", "poll", "advance state", "clear", "bind program",
                "update model", "upload uniforms", "bind and draw", "unbind",
                "sleep", "swap" >>
        /\ drawCalls = frame
        /\ lastDraw[1].count = 12

\* the statements of one iteration, as the amended claim orders them
C6_Order ==
    << "viewport", "poll", "colour", "offset", "wrap", "clear", "useProgram",
       "print", "model", "uniforms", "bind", "draw", "unbind", "sleep",
       "advance", "swap" >>

\* C6, amended: every iteration runs viewport, poll, the colour from the
\* current phase, the offset/direction step, the angle wrap test, clear,
\* bind program, print, update model, upload, bind geometry, one draw of 12
\* indices, unbind, sleep, the increments of colour phase and angle, swap;
\* nothing is skipped or reordered. Offset, direction and the angle wrap
\* advance before the clear; the colour phase and the angle are incremented
\* after the sleep.
C6_CodeOrder ==
    /\ pc \in BodySteps =>
          /\ Len(trace) < Len(C6_Order)
          /\ trace = SubSeq(C6_Order, 1, Len(trace))
          /\ pc = C6_Order[Len(trace) + 1]
          /\ drawCalls = IF "draw" \in {trace[k] : k \in 1..Len(trace)}
                         THEN frame ELSE frame - 1
    /\ IterationComplete =>
          /\ trace = C6_Order
          /\ Stages(trace) =
               << "viewport", "poll", "advance state", "clear",
                  "bind program", "update model", "upload uniforms",
                  "bind and draw", "unbind", "sleep", "advance state",
                  "swap" >>
          /\ drawCalls = frame
          /\ lastDraw[1].count = 12
          /\ clearColor = rgbPhase
          /\ phase # rgbPhase

C6_Witness ==
    IterationComplete /\ frame = 2 /\ drawCalls = 2 /\ modelVersion = 2

----------------------------------------------------------------------------
(* Closing the window *)

C7_Step ==
    \* an iteration that has started runs on, statement by statement
    /\ (pc \in BodySteps /\ pc' # pc) =>
          /\ pc' \in BodySteps \cup {"loopTest"}
          /\ trace' = Append(trace, pc)
    \* ... and is left only after the buffer swap
    /\ (pc' = "loopTest" /\ pc # "loopTest") =>
          pc \in {"swap", "compileShaders"}
    \* the loop is left only from its test, with the close flag seen raised
    /\ (pc' = "destroy" /\ pc # "destroy") => (pc = "loopTest" /\ shouldClose)
    \* once the flag is seen raised no iteration starts
    /\ (pc = "loopTest" /\ shouldClose) => pc' \in {"loopTest", "destroy"}
    /\ (pc = "destroy" /\ pc' # pc) =>
          (pc' = "done" /\ windowState' = "destroyed" /\ exit' = << 0 >>)
    /\ pc = "done" => (pc' = "done" /\ exit' = exit)

\* C7: the close flag is examined only by the loop test: a started
\* iteration runs through to the buffer swap whatever the flag becomes;
\* once the test sees it raised no further iteration starts, the window is
\* destroyed and main returns, for good; and a raised flag leads to
\* termination.
C7_CloseSeenOnlyAtLoopTest ==
    [][C7_Step]_vars /\ (shouldClose ~> pc = "done")

\* the flag was raised while events were polled; the iteration was still
\* completed, then main returned 0
C7_Witness ==
    /\ closeRequestedAt = "poll"
    /\ pc = "done" /\ exit = << 0 >> /\ windowState = "destroyed"
    /\ trace = LoopBody

----------------------------------------------------------------------------
(* Shader setup failures *)

ShaderSetupDone == glStatus.create # "none"

Printed(message) == \E k \in 1..Len(out) : out[k] = message

DrawDone ==
    pc \in {"unbind", "sleep", "advance", "swap", "loopTest", "destroy", "done"}

C8_State ==
    ShaderSetupDone =>
        \* every failure was reported
        /\ glStatus.create = "fail" => Printed(<< "Error creating shader program" >>)
        /\ glStatus.vertex = "fail" => Printed(<< "Error compiling shader", "vertex" >>)
        /\ glStatus.fragment = "fail" => Printed(<< "Error compiling shader", "fragment" >>)
        /\ glStatus.link = "fail" => Printed(<< "Error linking program" >>)
        /\ glStatus.validate = "fail" => Printed(<< "Error validating program" >>)
        \* nothing was tried twice
        /\ \A i, j \in 1..Len(shaderCalls) :
              shaderCalls[i] = shaderCalls[j] => i = j
        \* the process was not ended with the failure code
        /\ exit # << 1 >>
        \* one draw call in every frame
        /\ drawCalls = IF DrawDone THEN frame ELSE frame - 1

C8_Step ==
    /\ (pc = "compileShaders" /\ pc' # pc) => (pc' = "loopTest" /\ exit' = << >>)
    /\ (pc = "loopTest" /\ ~shouldClose /\ pc' # pc) => pc' = "viewport"
    /\ (pc = "draw" /\ pc' # pc) => drawCalls' = drawCalls + 1

\* C8: whatever fails in shader setup (program creation, either stage's
\* compilation, linking, validation), the failure is printed, nothing is
\* retried, the process is not terminated, main goes on into the render
\* loop and every frame issues its draw call.
C8_ShaderFailuresAreNotFatal ==
    [] C8_State /\ [][C8_Step]_vars

C8_Witness ==
    /\ glStatus.vertex = "fail" /\ glStatus.fragment = "fail"
    /\ glStatus.link = "fail"
    /\ pc = "loopTest" /\ frame = 2 /\ drawCalls = 2

----------------------------------------------------------------------------
(* Bindings *)

GeometryUnbound ==
    vaoBinding = 0 /\ arrayBufferBinding = 0 /\ elementBufferBinding = 0

\* C9: on return from createTriangle the vertex-array, array-buffer and
\* element-array-buffer bindings are 0, and these three and the current
\* program are 0 again at the end of every iteration, so that every
\* iteration starts unbound.
C9_BindingsCleared ==
    /\ pc = "compileShaders" => GeometryUnbound
    /\ pc \in {"sleep", "advance", "swap", "loopTest", "viewport"} =>
          (GeometryUnbound /\ currentProgram = 0)

\* a second iteration starts unbound after a draw that had the vertex
\* array, the index buffer and the program bound
C9_Witness ==
    /\ pc = "viewport" /\ frame = 2
    /\ lastDraw # << >>
    /\ lastDraw[1].vao # 0 /\ lastDraw[1].indices # 0 /\ lastDraw[1].program # 0
    /\ GeometryUnbound /\ currentProgram = 0

----------------------------------------------------------------------------
(* Uniform locations *)

ResolutionSkipped ==
    glStatus.create = "fail" \/ glStatus.link = "fail" \/ glStatus.validate = "fail"

UniformsResolved ==
    \E k \in 1..Len(shaderCalls) : shaderCalls[k][1] = "getUniformLocation"

\* C10: the uniform locations are looked up only when program creation,
\* linking and validation all succeeded; after a failure of any of them
\* uniformModel and uniformProjection keep their initial 0 (not -1), and
\* every frame uploads both matrices to location 0.
C10_UnresolvedUniformsAreZero ==
    /\ UniformsResolved =>
          (glStatus.create = "ok" /\ glStatus.link = "ok" /\ glStatus.validate = "ok")
    /\ ResolutionSkipped =>
          /\ ~UniformsResolved
          /\ ToInt(uniformModel) = 0 /\ ToInt(uniformProjection) = 0
          /\ uploadedTo \in { << >>, << 0, 0 >> }
          /\ (frame >= 1 /\ pc \in {"bind", "draw", "unbind", "sleep",
                                     "advance", "swap", "loopTest"})
                => uploadedTo = << 0, 0 >>

C10_Witness ==
    /\ glStatus.link = "fail"
    /\ pc = "draw" /\ frame = 2
    /\ uploadedTo = << 0, 0 >>

====
